---------------------------- MODULE Spec2Model ----------------------------
(***************************************************************************)
(* Business-calendar resolution engine of src/app.py:                      *)
(*   calculate_working_days         (lines 81-136)                         *)
(*   calculate_total_working_hours  (lines 138-148)                        *)
(*                                                                         *)
(* A date is its proleptic ordinal minus one, so that day 0 is date.min    *)
(* (0001-01-01, a Monday) and date.weekday() is  d % 7.  A datetime is a   *)
(* record [d, hm, s]: the date, the minute of the day (hour and minute are *)
(* always read and replaced together by the code) and the second.  The     *)
(* work_start_time / work_end_time arguments are minutes of the day: the   *)
(* caller obtains them from st.time_input (line 202), whose values carry   *)
(* no seconds.  A day of the model has DaySlots minutes, and MaxDate       *)
(* stands for date.max, past which  datetime + timedelta  raises           *)
(* OverflowError.                                                          *)
(*                                                                         *)
(* Floats are modelled exactly: the quotient returned at line 136 is the   *)
(* pair (num, den), and total_hours is kept in units of 1/3600 hour.       *)
(*                                                                         *)
(* One behaviour is one call: Init draws the function and its arguments,   *)
(* and every action is one entry block or one loop iteration of the code.  *)
(* Input dates lie in a window that starts on a Saturday, far from         *)
(* date.min and date.max, so that only a loop that never breaks reaches    *)
(* the end of the calendar.                                                *)
(***************************************************************************)
EXTENDS Integers, FiniteSets, Sequences, TLC

\* ---------------------------------------------------------------- bounds
NumDays     == 7    \* input dates: FirstDay .. FirstDay + NumDays - 1
MaxDate     == 15   \* the last representable date (date.max)
DaySlots    == 3    \* minutes in a day of the model
MaxSecond   == 1    \* seconds of an input timestamp: 0 or MaxSecond
MaxHolidays == 1    \* public_holidays: at most MaxHolidays consecutive dates

\* ------------------------------------------------------ program constants
DaysPerWeek      == 7
Saturday         == 5
SecondsPerMinute == 60
SecondsPerHour   == 3600
NumFormats       == 8

FirstDay      == Saturday                 \* day 5 is a Saturday
SecondsPerDay == DaySlots * SecondsPerMinute

Monday    == FirstDay + 2
Friday    == FirstDay + 6
InputDays == FirstDay .. (FirstDay + NumDays - 1)
Dates     == 0 .. MaxDate
Slots     == 0 .. (DaySlots - 1)
Seconds   == {0, MaxSecond}

VARIABLES
  fn,                     \* the function being executed
  pc,                     \* position in it
  work_start_time, work_end_time, public_holidays,
  created, completed,     \* row[created_col], row[done_col]
  start_datetime, end_datetime,
  current_process_time, total_working_seconds,
  start_date, end_date, current_date, total_hours,
  result,                 \* the returned value or the raised exception
  exit                    \* line of the return / raise statement taken

vars == << fn, pc, work_start_time, work_end_time, public_holidays,
           created, completed, start_datetime, end_datetime,
           current_process_time, total_working_seconds,
           start_date, end_date, current_date, total_hours, result, exit >>

\* ------------------------------------------------------------ data types
DT(d, hm, s) == [d |-> d, hm |-> hm, s |-> s]
None         == DT(-1, 0, 0)
NoDate       == -1

TimeOfDay(dt) == dt.hm * SecondsPerMinute + dt.s
WorkTime(t)   == t * SecondsPerMinute
Instant(dt)   == dt.d * SecondsPerDay + TimeOfDay(dt)

Pending       == [kind |-> "pending", num |-> 0, den |-> 1]
NaN           == [kind |-> "nan", num |-> 0, den |-> 1]
Zero          == [kind |-> "num", num |-> 0, den |-> 1]
Quotient(n, d) == [kind |-> "num", num |-> n, den |-> d]
OverflowError == [kind |-> "OverflowError", num |-> 0, den |-> 1]

\* A cell of the row: missing (NaN), or a text.  A text is described by the
\* set of formats of formats_to_try that strptime accepts it under and by
\* the datetime it denotes.
Missing       == [kind |-> "nan", matches |-> {}, dt |-> None]
Text(m, dt)   == [kind |-> "text", matches |-> m, dt |-> dt]

isna(cell) == cell.kind = "nan"

\* datetime.strptime(text, formats_to_try[i]); None stands for ValueError.
\* Only format 1 ('%Y-%m-%d %H:%M:%S') reads a seconds field.
strptime(cell, i) ==
  IF i \in cell.matches
  THEN IF i = 1 THEN cell.dt ELSE DT(cell.dt.d, cell.dt.hm, 0)
  ELSE None

\* The loop of lines 94-97 (and 98-101) from format i on, acc being the
\* value of start_datetime (end_datetime) so far.
RECURSIVE TryFormats(_, _, _)
TryFormats(cell, i, acc) ==
  IF i > NumFormats THEN acc
  ELSE TryFormats(cell, i + 1, IF acc = None THEN strptime(cell, i) ELSE acc)

Parse(cell) == TryFormats(cell, 1, None)

\* ------------------------------------------------------ calendar helpers
Weekday(d) == d % DaysPerWeek

PerDaySeconds(ws, we) == WorkTime(we) - WorkTime(ws)

\* line 106: start_datetime.date() in public_holidays or weekday() >= 5
StartOnNonWorkingDay(dt, hol) == dt.d \in hol \/ Weekday(dt.d) >= Saturday

\* line 116
EndOnNonWorkingDay(dt, hol) == dt.d \in hol \/ Weekday(dt.d) >= Saturday

\* line 107 without the timedelta
StartSkipDayStuck(dt, ws) == DT(dt.d, ws, 0)

\* line 107: (+1 day).replace(hour, minute, second=0, microsecond=0)
StartSkipDay(dt, ws) == DT(dt.d + 1, ws, 0)

\* line 109 with the start moved to work_end_time instead
StartClampToEnd(dt, ws, we) == DT(dt.d, we, dt.s)

\* line 109: replace(hour, minute)
StartClamp(dt, ws, we) == DT(dt.d, ws, dt.s)

\* line 111: (+1 day).replace(hour, minute)
StartRollover(dt, ws) == DT(dt.d + 1, ws, dt.s)

\* line 117
EndSkipDay(dt, we) == DT(dt.d - 1, we, 0)

\* line 119
EndClamp(dt, we) == DT(dt.d, we, dt.s)

\* line 121
EndRollback(dt, we) == DT(dt.d - 1, we, dt.s)

\* One iteration of the loop of lines 105-113:
\* the new start_datetime and what the iteration ends with.
StartSnapStep(dt, ws, we, hol) ==
  IF StartOnNonWorkingDay(dt, hol)
  THEN IF dt.d + 1 > MaxDate
       THEN [dt |-> dt, how |-> "raise", line |-> 107]
       ELSE [dt |-> StartSkipDay(dt, ws), how |-> "continue", line |-> 108]
  ELSE IF TimeOfDay(dt) < WorkTime(ws)
       THEN [dt |-> StartClamp(dt, ws, we), how |-> "break", line |-> 113]
       ELSE IF TimeOfDay(dt) >= WorkTime(we)
            THEN IF dt.d + 1 > MaxDate
                 THEN [dt |-> dt, how |-> "raise", line |-> 111]
                 ELSE [dt |-> StartRollover(dt, ws), how |-> "continue",
                       line |-> 112]
            ELSE [dt |-> dt, how |-> "break", line |-> 113]

\* One iteration of the loop of lines 115-123.
EndSnapStep(dt, ws, we, hol) ==
  IF EndOnNonWorkingDay(dt, hol)
  THEN IF dt.d - 1 < 0
       THEN [dt |-> dt, how |-> "raise", line |-> 117]
       ELSE [dt |-> EndSkipDay(dt, we), how |-> "continue", line |-> 118]
  ELSE IF TimeOfDay(dt) > WorkTime(we)
       THEN [dt |-> EndClamp(dt, we), how |-> "break", line |-> 123]
       ELSE IF TimeOfDay(dt) <= WorkTime(ws)
            THEN IF dt.d - 1 < 0
                 THEN [dt |-> dt, how |-> "raise", line |-> 121]
                 ELSE [dt |-> EndRollback(dt, we), how |-> "continue",
                       line |-> 122]
            ELSE [dt |-> dt, how |-> "break", line |-> 123]

Min(a, b) == IF a <= b THEN a ELSE b
Max(a, b) == IF a >= b THEN a ELSE b

\* line 129 without the public_holidays test
CountsWeekdaysOnly(dt, hol) == Weekday(dt.d) < Saturday

\* line 129
CountsAsWorkingDay(dt, hol) == Weekday(dt.d) < Saturday /\ dt.d \notin hol

\* lines 130-132 with day_start in the place of day_end
DayContributionToDayStart(cur, e, ws, we) ==
  Min(Instant(e), Instant(DT(cur.d, ws, 0)))
    - Max(Instant(cur), Instant(DT(cur.d, ws, 0)))

\* lines 130-132: the seconds one day adds to total_working_seconds
DayContribution(cur, e, ws, we) ==
  Min(Instant(e), Instant(DT(cur.d, we, 0)))
    - Max(Instant(cur), Instant(DT(cur.d, ws, 0)))

\* line 133: (replace(hour=0, minute=0) + 1 day).replace(hour, minute)
NextProcessTime(cur, ws) == DT(cur.d + 1, ws, cur.s)

\* line 145 with weekday() < 6
IsWorkingDateWithSaturday(d, hol) == Weekday(d) <= Saturday /\ d \notin hol

\* line 145
IsWorkingDate(d, hol) == Weekday(d) < Saturday /\ d \notin hol

\* line 144 with an exclusive end
HoursLoopExclusive(cur, last) == cur < last

\* line 144
HoursLoopCondition(cur, last) == cur <= last

\* ---------------------------------------------------------------- inputs
WorkStarts == 1 .. (DaySlots - 1)
WorkEnds   == 1 .. (DaySlots - 1)

\* public_holidays: no date, or a run of consecutive dates
HolidaySets ==
  { {} } \cup
  { (a .. (a + n - 1)) \cap InputDays : a \in InputDays, n \in 1 .. MaxHolidays }

InputDateTimes == { DT(d, hm, s) : d \in InputDays, hm \in Slots, s \in Seconds }

\* A missing cell, a text no format accepts, '%Y-%m-%d %H:%M:%S' texts, and
\* 'dd/mm/yyyy HH:MM' texts that read both as day/month and as month/day.
SlashDateTimes == { DT(d, hm, 0) : d \in {Monday, Monday + 1}, hm \in Slots }
Cells ==
  { Missing, Text({}, None) } \cup
  { Text({1}, dt) : dt \in InputDateTimes } \cup
  { Text({4, 6}, dt) : dt \in SlashDateTimes }

WellFormed(cell) ==
  cell.kind = "text" /\ cell.matches # {} /\ 1 \notin cell.matches
     => cell.dt.s = 0

InputCells == { c \in Cells : WellFormed(c) }
IsoCells   == { c \in InputCells : c.matches \subseteq {1} }

Calendars      == WorkStarts \X WorkEnds
ValidCalendars == { c \in Calendars : c[1] < c[2] }

InitOver(calendars, cells) ==
  /\ \E c \in calendars : work_start_time = c[1] /\ work_end_time = c[2]
  /\ public_holidays \in HolidaySets
  /\ fn \in { "calculate_working_days", "calculate_total_working_hours" }
  /\ pc = "entry"
  /\ IF fn = "calculate_working_days"
     THEN /\ created \in cells
          /\ completed \in cells
          /\ start_date = NoDate /\ end_date = NoDate
     ELSE /\ created = Missing /\ completed = Missing
          /\ start_date \in InputDays \cup {NoDate}
          /\ end_date \in InputDays \cup {NoDate}
  /\ start_datetime = None /\ end_datetime = None
  /\ current_process_time = None /\ total_working_seconds = 0
  /\ current_date = NoDate /\ total_hours = 0
  /\ result = Pending /\ exit = 0

\* ------------------------------------------------ calculate_working_days
Return(val, line) ==
  /\ pc' = "done" /\ result' = val /\ exit' = line

\* lines 83-103
ParseTimestamps ==
  /\ fn = "calculate_working_days" /\ pc = "entry"
  /\ UNCHANGED << fn, work_start_time, work_end_time, public_holidays,
                  created, completed, current_process_time,
                  total_working_seconds, start_date, end_date,
                  current_date, total_hours >>
  /\ IF isna(created) \/ isna(completed)
     THEN Return(NaN, 86) /\ UNCHANGED << start_datetime, end_datetime >>
     ELSE /\ start_datetime' = Parse(created)
          /\ end_datetime' = Parse(completed)
          /\ IF start_datetime' = None \/ end_datetime' = None
             THEN Return(NaN, 102)
             ELSE IF Instant(start_datetime') >= Instant(end_datetime')
                  THEN Return(Zero, 103)
                  ELSE pc' = "start_snap" /\ UNCHANGED << result, exit >>

\* lines 105-113, one iteration
SnapStart ==
  /\ fn = "calculate_working_days" /\ pc = "start_snap"
  /\ LET r == StartSnapStep(start_datetime, work_start_time, work_end_time,
                            public_holidays)
     IN  /\ start_datetime' = r.dt
         /\ CASE r.how = "raise"    -> Return(OverflowError, r.line)
              [] r.how = "continue" -> UNCHANGED << pc, result, exit >>
              [] r.how = "break"    -> pc' = "end_snap"
                                       /\ UNCHANGED << result, exit >>
  /\ UNCHANGED << fn, work_start_time, work_end_time, public_holidays,
                  created, completed, end_datetime, current_process_time,
                  total_working_seconds, start_date, end_date,
                  current_date, total_hours >>

\* lines 115-127, one iteration; the break falls through to lines 125-127
SnapEnd ==
  /\ fn = "calculate_working_days" /\ pc = "end_snap"
  /\ LET r == EndSnapStep(end_datetime, work_start_time, work_end_time,
                          public_holidays)
     IN  /\ end_datetime' = r.dt
         /\ CASE r.how = "raise" ->
                   /\ Return(OverflowError, r.line)
                   /\ UNCHANGED current_process_time
              [] r.how = "continue" ->
                   UNCHANGED << pc, result, exit, current_process_time >>
              [] r.how = "break" ->
                   IF Instant(start_datetime) >= Instant(r.dt)
                   THEN Return(Zero, 125) /\ UNCHANGED current_process_time
                   ELSE /\ pc' = "sum"
                        /\ current_process_time' = start_datetime
                        /\ UNCHANGED << result, exit >>
  /\ UNCHANGED << fn, work_start_time, work_end_time, public_holidays,
                  created, completed, start_datetime,
                  total_working_seconds, start_date, end_date,
                  current_date, total_hours >>

\* lines 128-136, one iteration or the exit of the loop
SumWorkingSeconds ==
  /\ fn = "calculate_working_days" /\ pc = "sum"
  /\ IF Instant(current_process_time) < Instant(end_datetime)
     THEN /\ total_working_seconds' =
               IF CountsAsWorkingDay(current_process_time, public_holidays)
               THEN total_working_seconds
                      + DayContribution(current_process_time, end_datetime,
                                        work_start_time, work_end_time)
               ELSE total_working_seconds
          /\ IF current_process_time.d + 1 > MaxDate
             THEN Return(OverflowError, 133)
                  /\ UNCHANGED current_process_time
             ELSE /\ current_process_time' =
                       NextProcessTime(current_process_time, work_start_time)
                  /\ UNCHANGED << pc, result, exit >>
     ELSE /\ Return(IF PerDaySeconds(work_start_time, work_end_time) > 0
                    THEN Quotient(total_working_seconds,
                                  PerDaySeconds(work_start_time, work_end_time))
                    ELSE Zero, 136)
          /\ UNCHANGED << total_working_seconds, current_process_time >>
  /\ UNCHANGED << fn, work_start_time, work_end_time, public_holidays,
                  created, completed, start_datetime, end_datetime,
                  start_date, end_date, current_date, total_hours >>

\* ----------------------------------------- calculate_total_working_hours
\* lines 140-143
HoursEntry ==
  /\ fn = "calculate_total_working_hours" /\ pc = "entry"
  /\ IF \/ PerDaySeconds(work_start_time, work_end_time) <= 0
        \/ end_date = NoDate \/ start_date = NoDate
        \/ end_date < start_date
     THEN Return(Zero, 141) /\ UNCHANGED current_date
     ELSE /\ pc' = "hours_loop"
          /\ current_date' = start_date
          /\ UNCHANGED << result, exit >>
  /\ UNCHANGED << fn, work_start_time, work_end_time, public_holidays,
                  created, completed, start_datetime, end_datetime,
                  current_process_time, total_working_seconds,
                  start_date, end_date, total_hours >>

\* lines 144-148, one iteration or the exit of the loop
HoursLoop ==
  /\ fn = "calculate_total_working_hours" /\ pc = "hours_loop"
  /\ IF HoursLoopCondition(current_date, end_date)
     THEN /\ total_hours' =
               IF IsWorkingDate(current_date, public_holidays)
               THEN total_hours
                      + PerDaySeconds(work_start_time, work_end_time)
               ELSE total_hours
          /\ IF current_date + 1 > MaxDate
             THEN Return(OverflowError, 147) /\ UNCHANGED current_date
             ELSE /\ current_date' = current_date + 1
                  /\ UNCHANGED << pc, result, exit >>
     ELSE /\ Return(Quotient(total_hours, SecondsPerHour), 148)
          /\ UNCHANGED << total_hours, current_date >>
  /\ UNCHANGED << fn, work_start_time, work_end_time, public_holidays,
                  created, completed, start_datetime, end_datetime,
                  current_process_time, total_working_seconds,
                  start_date, end_date >>

Next ==
  \/ ParseTimestamps
  \/ SnapStart
  \/ SnapEnd
  \/ SumWorkingSeconds
  \/ HoursEntry
  \/ HoursLoop

Init == InitOver(Calendars, InputCells)

Spec == Init /\ [][Next]_vars

\* The interpreter runs the called function on until it returns or raises.
InitValid == InitOver(ValidCalendars, IsoCells)

SpecFair == InitValid /\ [][Next]_vars /\ WF_vars(Next)

\* ------------------------------------------- the functions as operators
\* The loop of lines 105-113 run to its exit.
RECURSIVE StartSnapLoop(_, _, _, _)
StartSnapLoop(dt, ws, we, hol) ==
  LET r == StartSnapStep(dt, ws, we, hol)
  IN  IF r.how = "continue" THEN StartSnapLoop(r.dt, ws, we, hol) ELSE r

\* The loop of lines 115-123 run to its exit.
RECURSIVE EndSnapLoop(_, _, _, _)
EndSnapLoop(dt, ws, we, hol) ==
  LET r == EndSnapStep(dt, ws, we, hol)
  IN  IF r.how = "continue" THEN EndSnapLoop(r.dt, ws, we, hol) ELSE r

\* The loop of lines 128-133 run to its exit: total_working_seconds, and
\* whether line 133 raised.
RECURSIVE SumLoop(_, _, _, _, _, _)
SumLoop(cur, e, total, ws, we, hol) ==
  IF Instant(cur) < Instant(e)
  THEN LET t == IF CountsAsWorkingDay(cur, hol)
                THEN total + DayContribution(cur, e, ws, we)
                ELSE total
       IN  IF cur.d + 1 > MaxDate THEN [total |-> t, how |-> "raise"]
           ELSE SumLoop(NextProcessTime(cur, ws), e, t, ws, we, hol)
  ELSE [total |-> total, how |-> "exit"]

\* calculate_working_days as a function of its arguments
WorkingDays(c, k, ws, we, hol) ==
  IF isna(c) \/ isna(k) THEN NaN
  ELSE IF Parse(c) = None \/ Parse(k) = None THEN NaN
  ELSE IF Instant(Parse(c)) >= Instant(Parse(k)) THEN Zero
  ELSE LET S == StartSnapLoop(Parse(c), ws, we, hol)
       IN  IF S.how = "raise" THEN OverflowError
           ELSE LET E == EndSnapLoop(Parse(k), ws, we, hol)
                IN  IF E.how = "raise" THEN OverflowError
                    ELSE IF Instant(S.dt) >= Instant(E.dt) THEN Zero
                    ELSE LET t == SumLoop(S.dt, E.dt, 0, ws, we, hol)
                         IN  IF t.how = "raise" THEN OverflowError
                             ELSE IF PerDaySeconds(ws, we) > 0
                                  THEN Quotient(t.total,
                                                PerDaySeconds(ws, we))
                                  ELSE Zero

\* the stepwise execution and the function agree on every returned value
StepsAgreeWithFunction ==
  (fn = "calculate_working_days" /\ pc = "done")
     => result = WorkingDays(created, completed, work_start_time,
                             work_end_time, public_holidays)

\* ================================================================ claims
WD            == fn = "calculate_working_days"
Hours         == fn = "calculate_total_working_hours"
ValidCalendar == work_start_time < work_end_time
PerDay        == PerDaySeconds(work_start_time, work_end_time)

BothParse ==
  /\ ~isna(created) /\ ~isna(completed)
  /\ Parse(created) # None /\ Parse(completed) # None

\* both snapping loops have been left through their break
Snapped == pc = "sum" \/ (pc = "done" /\ exit \in {125, 133, 136})

WorkingDay(d) == Weekday(d) \in 0 .. 4 /\ d \notin public_holidays

AllDateTimes == { DT(d, hm, s) : d \in Dates, hm \in Slots, s \in Seconds }

RatEq(a, b) == a.kind = "num" /\ b.kind = "num" /\ a.num * b.den = b.num * a.den

\* C1: under a degenerate calendar (work_end <= work_start) the call
\* returns 0.0 for every parseable pair, and does not raise.
C1_DegenerateCalendarReturnsZero ==
  (WD /\ ~ValidCalendar /\ BothParse /\ pc = "done") => RatEq(result, Zero)

\* C2: the snapped start is the earliest instant >= created_at on a working
\* day with work_start <= t < work_end, and the snapped end is the latest
\* instant <= completed_at on a working day with work_start < t <= work_end.
StartInstant(x) ==
  /\ WorkingDay(x.d)
  /\ WorkTime(work_start_time) <= TimeOfDay(x)
  /\ TimeOfDay(x) < WorkTime(work_end_time)

EndInstant(x) ==
  /\ WorkingDay(x.d)
  /\ WorkTime(work_start_time) < TimeOfDay(x)
  /\ TimeOfDay(x) <= WorkTime(work_end_time)

C2_SnapsToNearestWorkingInstant ==
  (WD /\ ValidCalendar /\ Snapped) =>
     /\ StartInstant(start_datetime)
     /\ Instant(start_datetime) >= Instant(Parse(created))
     /\ \A x \in AllDateTimes :
          (StartInstant(x) /\ Instant(x) >= Instant(Parse(created)))
             => Instant(x) >= Instant(start_datetime)
     /\ EndInstant(end_datetime)
     /\ Instant(end_datetime) <= Instant(Parse(completed))
     /\ \A x \in AllDateTimes :
          (EndInstant(x) /\ Instant(x) <= Instant(Parse(completed)))
             => Instant(x) <= Instant(end_datetime)

\* C3: the returned value times the per-day working seconds is the sum,
\* over the working days d from the snapped start S to the snapped end E,
\* of max(0, min(E, d at work_end) - max(S, d at work_start)).
RECURSIVE WindowSum(_, _, _)
WindowSum(d, S, E) ==
  IF d > E.d THEN 0
  ELSE (IF WorkingDay(d)
        THEN Max(0, Min(Instant(E), Instant(DT(d, work_end_time, 0)))
                      - Max(Instant(S), Instant(DT(d, work_start_time, 0))))
        ELSE 0) + WindowSum(d + 1, S, E)

C3_DurationIsWindowSum ==
  (WD /\ ValidCalendar /\ pc = "done" /\ exit = 136) =>
     /\ result.kind = "num"
     /\ result.num * PerDay
          = WindowSum(start_datetime.d, start_datetime, end_datetime)
              * result.den

\* C4: the call returns NaN whenever a timestamp is missing or matches no
\* format, and a number whenever both parse; it never raises.
C4_UndefinedIffUnparseable ==
  (WD /\ pc = "done") =>
     IF BothParse THEN result.kind = "num" ELSE result = NaN

\* C5: with work_start < work_end the returned duration of a parseable pair
\* is >= 0, and no day adds a negative amount to total_working_seconds.
C5_NonNegative ==
  /\ []((WD /\ ValidCalendar /\ BothParse /\ pc = "done")
          => (result.kind = "num" /\ result.num >= 0 /\ result.den > 0))
  /\ [][(WD /\ ValidCalendar)
          => total_working_seconds' >= total_working_seconds]_vars

C5_Witness ==
  /\ WD /\ ValidCalendar /\ pc = "done" /\ exit = 136
  /\ created.dt.s > 0
  /\ end_datetime.d > start_datetime.d
  /\ result.num > 0

\* C6: calculate_total_working_hours returns the number of Monday-Friday,
\* non-excluded dates of [start_date, end_date] times the per-day working
\* hours, and 0 when end_date < start_date or work_end <= work_start.
WorkingDates(a, b) == { d \in a .. b : WorkingDay(d) }

C6_CapacityFormula ==
  (Hours /\ pc = "done") =>
     IF ~ValidCalendar
     THEN RatEq(result, Zero)
     ELSE (start_date # NoDate /\ end_date # NoDate) =>
            IF end_date < start_date
            THEN RatEq(result, Zero)
            ELSE RatEq(result,
                       Quotient(Cardinality(WorkingDates(start_date, end_date))
                                  * PerDay, SecondsPerHour))

C6_Witness ==
  /\ Hours /\ ValidCalendar /\ pc = "done" /\ exit = 148
  /\ \E h \in public_holidays :
        start_date < h /\ h < end_date /\ Weekday(h) < Saturday
  /\ result.num > 0

\* C7: each snapped endpoint is a fixed point of its own snapping loop.
C7_SnapIdempotent ==
  (WD /\ ValidCalendar /\ Snapped) =>
     /\ StartSnapLoop(start_datetime, work_start_time, work_end_time,
                      public_holidays)
          = [dt |-> start_datetime, how |-> "break", line |-> 113]
     /\ EndSnapLoop(end_datetime, work_start_time, work_end_time,
                    public_holidays)
          = [dt |-> end_datetime, how |-> "break", line |-> 123]

C7_Witness ==
  /\ WD /\ ValidCalendar /\ Snapped
  /\ created.dt.s > 0 /\ completed.dt.s > 0
  /\ TimeOfDay(Parse(created)) < WorkTime(work_start_time)
  /\ TimeOfDay(Parse(completed)) > WorkTime(work_end_time)
  /\ start_datetime # Parse(created)
  /\ end_datetime # Parse(completed)

\* C8: for the interval Monday at work_start .. Friday at work_end,
\* excluding exactly one of the five dates lowers total_working_seconds by
\* one day's working seconds, i.e. the duration by exactly 1.0.
FullWeekCall ==
  /\ WD /\ ValidCalendar /\ BothParse
  /\ Parse(created) = DT(Monday, work_start_time, 0)
  /\ Parse(completed) = DT(Friday, work_end_time, 0)

C8_HolidayRemovesOneDay ==
  (/\ FullWeekCall /\ pc = "done"
   /\ Cardinality(public_holidays) = 1
   /\ public_holidays \subseteq Monday .. Friday) =>
     LET base == WorkingDays(created, completed, work_start_time,
                             work_end_time, {})
     IN  /\ RatEq(base, Quotient(5, 1))
         /\ total_working_seconds = base.num - PerDay
         /\ RatEq(result, Quotient(base.num - base.den, base.den))

C8_Witness ==
  /\ FullWeekCall /\ pc = "done" /\ exit = 136
  /\ public_holidays = {Monday + 2}

\* C9: with work_start < work_end and created_at < completed_at the three
\* loops of calculate_working_days reach their exit: the call returns.
C9_Terminates ==
  (/\ WD /\ ValidCalendar /\ BothParse
   /\ Instant(Parse(created)) < Instant(Parse(completed)))
     ~> (pc = "done" /\ exit \in {125, 136})

C9_Witness ==
  /\ WD /\ ValidCalendar /\ pc = "done" /\ exit = 136
  /\ Weekday(Parse(created).d) = Saturday
  /\ Parse(created).d + 2 \in public_holidays
  /\ start_datetime.d = Parse(created).d + 3

\* C10: the duration of the interval d1 at work_start .. d2 at work_end,
\* times the per-day working hours, is calculate_total_working_hours(d1, d2).
C10_ResolverAgreesWithCapacity ==
  (/\ Hours /\ ValidCalendar /\ pc = "done"
   /\ start_date # NoDate /\ end_date # NoDate /\ start_date <= end_date) =>
     LET r == WorkingDays(Text({1}, DT(start_date, work_start_time, 0)),
                          Text({1}, DT(end_date, work_end_time, 0)),
                          work_start_time, work_end_time, public_holidays)
     IN  /\ r.kind = "num"
         /\ RatEq(Quotient(r.num * PerDay, r.den * SecondsPerHour), result)

C10_Witness ==
  /\ Hours /\ ValidCalendar /\ pc = "done" /\ exit = 148
  /\ Weekday(start_date) = Saturday
  /\ start_date + 2 \in public_holidays
  /\ end_date = start_date + 4
  /\ result.num = 2 * PerDay

=============================================================================
